---------------------------- MODULE Spec2Model ----------------------------
(***************************************************************************)
(* Model of the CourseUp Fastify service (src/index.ts): the routes        *)
(*   GET /semester                                                         *)
(*   GET /semester/:term/courses                                           *)
(*   GET /semester/:term/courses/:subject/:code                            *)
(*   GET /semester/:term/courses/:subject/:code/:section                   *)
(* with their attached route schemas, their handlers, and the upstream     *)
(* Course Data Provider (server.uvic) as an environment that settles each  *)
(* issued call with a value or a failure.                                  *)
(*                                                                         *)
(* Conventions.                                                            *)
(*  - A JS string is a sequence of one-character strings, so that length   *)
(*    and slice are computed, e.g. "CSC" is <<"C","S","C">>.               *)
(*  - A JS number n is held as the integer 2*n (a count of halves), so     *)
(*    that the non-integer query values the schema's "number" type admits  *)
(*    (1.5, 0.5, ...) are inputs too.  A product of two numbers is then a  *)
(*    count of quarters.                                                   *)
(*  - Requests share no state (the handlers only read server.uvic), so     *)
(*    one request is in flight at a time; the next is received once the    *)
(*    current one has been answered.                                       *)
(***************************************************************************)
EXTENDS Integers, Sequences, FiniteSets, TLC

VARIABLES
    pc,         \* position of the request: idle, received, handler, await, done
    req,        \* the request: route and raw path/query parameters
    calls,      \* provider calls issued for the request, in issue order
    courses,    \* promise of uvic.getCourses
    details,    \* promise of getCourseDetails
    sections,   \* promise of uvic.getCourseSections
    loc,        \* locals of the list handler (c, page, limit, filtered)
    resp,       \* the request's outcome
    course,     \* argument of a direct subjectCodeExtractor application
    identity    \* its result

vars == <<pc, req, calls, courses, details, sections, loc, resp, course, identity>>

-----------------------------------------------------------------------------
(* Bounds of the model. *)

\* longest upstream course list
MaxCourses == 3
\* longest upstream section list
MaxSections == 2
\* largest page / limit value a request supplies
MaxPage == 2
\* longest catalog identifier / reference subject name handed to the extractor
MaxIdLen == 4
MaxNameLen == 3

-----------------------------------------------------------------------------
(* Values. *)

Min(a, b) == IF a < b THEN a ELSE b
Max(a, b) == IF a > b THEN a ELSE b

\* all sequences over S of length at most n
SeqsUpTo(S, n) == UNION {[1..k -> S] : k \in 0..n}

\* the JS number n
Num(n) == 2 * n
IsInteger(h) == h % 2 = 0

\* an optional parameter: undefined, or a value
Absent == [kind |-> "absent"]
Str(s) == [kind |-> "str", val |-> s]
Number(h) == [kind |-> "num", val |-> h]
\* a query value that does not coerce to a number, e.g. page=abc
NotANumber == [kind |-> "nan"]

\* JS truthiness of an optional string / number: undefined, "" and 0 are falsy
Truthy(v) ==
    \/ v.kind = "str" /\ v.val # <<>>
    \/ v.kind = "num" /\ v.val # 0

\* ToIntegerOrInfinity of a count of quarters: truncation toward zero
ToInteger(q) == IF q >= 0 THEN q \div 4 ELSE -((-q) \div 4)

\* Array.prototype.slice / String.prototype.slice with integer arguments:
\* a negative index counts from the end, both are clamped to [0, length]
Slice(arr, start, end) ==
    LET len == Len(arr)
        k == IF start < 0 THEN Max(len + start, 0) ELSE Min(start, len)
        final == IF end < 0 THEN Max(len + end, 0) ELSE Min(end, len)
    IN  IF final > k THEN SubSeq(arr, k + 1, final) ELSE <<>>

-----------------------------------------------------------------------------
(* The identifier decomposer. *)

\* the extractor with the code taken one character late
subjectCodeExtractorOffByOne(crs) ==
    [subject |-> Slice(crs.catalogCourseId, 0, Len(crs.subjectCodeName)),
     code    |-> Slice(crs.catalogCourseId, Len(crs.subjectCodeName) + 1,
                       Len(crs.catalogCourseId))]

subjectCodeExtractor(crs) ==
    [subject |-> Slice(crs.catalogCourseId, 0, Len(crs.subjectCodeName)),
     code    |-> Slice(crs.catalogCourseId, Len(crs.subjectCodeName),
                       Len(crs.catalogCourseId))]


-----------------------------------------------------------------------------
(* The route schemas. *)

\* GET /semester answers with this list
SemesterTerms == <<"202109", "202201">>

\* the term literals of CoursesParams, ClassParams and SectionParams
CoursesTerms == {"202109", "202110"}
ClassTerms == {"202109", "202110"}
SectionTerms == {"202109", "202110"}

\* CoursesParams: term is optional, a union of two literals
CoursesParams(params) ==
    ("term" \in DOMAIN params) => params.term \in CoursesTerms

\* CoursesQuery: optional strings and optional numbers.  The option written
\* on the two numbers is "min", which is no JSON-schema keyword ("minimum"
\* is): the validator ignores it, so any value that coerces to a number
\* passes.
CoursesQuery(query) ==
    /\ query.subject.kind \in {"absent", "str"}
    /\ query.code.kind \in {"absent", "str"}
    /\ query.page.kind \in {"absent", "num"}
    /\ query.limit.kind \in {"absent", "num"}

ClassParams(params) ==
    /\ params.term \in ClassTerms
    /\ Len(params.subject) >= 2 /\ Len(params.subject) <= 4
    /\ Len(params.code) >= 3 /\ Len(params.code) <= 4

\* SectionParams types the section route's request, and is not in its schema
SectionParams(params) ==
    /\ params.term \in SectionTerms
    /\ Len(params.subject) >= 2 /\ Len(params.subject) <= 4
    /\ Len(params.code) >= 3 /\ Len(params.code) <= 4
    /\ Len(params.section) >= 1 /\ Len(params.section) <= 4

\* what each route registers as its schema
RouteSchema(r) ==
    CASE r.route = "semester" -> TRUE
      [] r.route = "courses"  -> CoursesParams(r.params) /\ CoursesQuery(r.query)
      [] r.route = "course"   -> ClassParams(r.params)
      [] r.route = "section"  -> TRUE

-----------------------------------------------------------------------------
(* Outcomes of a request. *)

NoResponse == [kind |-> "none"]
\* the schema check failed: the handler is not run
ValidationError == [kind |-> "validation", status |-> 400]
\* the handler's promise rejected
Failure == [kind |-> "failure", status |-> 500]
NotFound == [kind |-> "notfound", status |-> 404,
             body |-> [error |-> "Course not found"]]
Ok(body) == [kind |-> "ok", status |-> 200, body |-> body]
\* the handler's promise resolved with undefined: no payload, the status
\* code is left at its default
Undefined == [kind |-> "undefined", status |-> 200]

\* a promise of a provider call
NotIssued == [st |-> "none"]
Pending == [st |-> "pending"]
Rejected == [st |-> "rejected"]
Fulfilled(v) == [st |-> "fulfilled", val |-> v]

\* getCourseDetails found no record
Null == [null |-> TRUE]

-----------------------------------------------------------------------------
(* The list handler, GET /semester/:term/courses. *)

DefaultLimit == 10
DefaultPage == 1

\* courses.response.map((course) => subjectCodeExtractor(course))
MapExtract(response) ==
    [i \in 1..Len(response) |-> subjectCodeExtractor(response[i])]

\* request.query.limit || 10, request.query.page || 1
LimitOf(query) == IF Truthy(query.limit) THEN query.limit.val ELSE Num(DefaultLimit)
PageOf(query) == IF Truthy(query.page) THEN query.page.val ELSE Num(DefaultPage)

KeepSubject(subject, crs) == ~Truthy(subject) \/ subject.val = crs.subject
KeepCode(code, crs) == ~Truthy(code) \/ code.val = crs.code

\* the filter stage without its second filter
FilteredBySubjectOnly(c, query) ==
    SelectSeq(c, LAMBDA crs : KeepSubject(query.subject, crs))

\* .filter(subject ...).filter(code ...)
Filtered(c, query) ==
    SelectSeq(SelectSeq(c, LAMBDA crs : KeepSubject(query.subject, crs)),
              LAMBDA crs : KeepCode(query.code, crs))

\* .slice((page - 1) * limit, page * limit): page and limit are counts of
\* halves, their products counts of quarters
Paginate(f, page, limit) ==
    Slice(f, ToInteger((page - 2) * limit), ToInteger(page * limit))

\* the locals of the handler once getCourses has answered
ListLocals(query, response) ==
    [c        |-> MapExtract(response),
     limit    |-> LimitOf(query),
     page     |-> PageOf(query),
     filtered |-> Filtered(MapExtract(response), query)]

\* the list handler catching the provider's failure and answering an empty
\* list
ListOutcomeSwallows(query, p) ==
    IF p.st = "rejected"
    THEN Ok(<<>>)
    ELSE LET l == ListLocals(query, p.val.response)
         IN  Ok(Paginate(l.filtered, l.page, l.limit))

\* the handler's outcome from the settled getCourses promise
ListOutcome(query, p) ==
    IF p.st = "rejected"
    THEN Failure
    ELSE LET l == ListLocals(query, p.val.response)
         IN  Ok(Paginate(l.filtered, l.page, l.limit))

-----------------------------------------------------------------------------
(* The detail handler, GET /semester/:term/courses/:subject/:code. *)

\* the join going on as soon as the detail fetch has found no record
PromiseAllDetailsFirst(d, s) ==
    IF d.st = "rejected" \/ s.st = "rejected" THEN "rejected"
    ELSE IF d.st = "fulfilled" /\ (d.val = Null \/ s.st = "fulfilled")
         THEN "fulfilled"
    ELSE "pending"

\* Promise.all of the two calls: rejected as soon as one is, fulfilled once
\* both are
PromiseAll(d, s) ==
    IF d.st = "rejected" \/ s.st = "rejected" THEN "rejected"
    ELSE IF d.st = "fulfilled" /\ s.st = "fulfilled" THEN "fulfilled"
    ELSE "pending"

ProjectSections(response) ==
    [i \in 1..Len(response) |->
        [crn         |-> response[i].crn,
         section     |-> response[i].sectionCode,
         sectionType |-> response[i].sectionType]]

\* { ...details, sections: [...] }
Merge(d, secs) ==
    [f \in DOMAIN d \cup {"sections"} |-> IF f = "sections" THEN secs ELSE d[f]]

\* the detail handler without its check for a missing record
DetailOutcomeNoNullCheck(d, s) ==
    IF PromiseAll(d, s) = "rejected" THEN Failure
    ELSE Ok(Merge(d.val, ProjectSections(s.val.response)))

DetailOutcome(d, s) ==
    IF PromiseAll(d, s) = "rejected" THEN Failure
    ELSE IF d.val = Null THEN NotFound
    ELSE Ok(Merge(d.val, ProjectSections(s.val.response)))

-----------------------------------------------------------------------------
(* The section handler, GET /semester/:term/courses/:subject/:code/:section. *)

\* details.response.find((s) => s.sectionCode === section): the first match,
\* or undefined
Find(response, section) ==
    LET hits == {i \in 1..Len(response) : response[i].sectionCode = section}
    IN  IF hits = {} THEN {}
        ELSE {response[CHOOSE i \in hits : \A j \in hits : i <= j]}

SectionOutcome(section, s) ==
    IF s.st = "rejected" THEN Failure
    ELSE IF s.val = Null THEN NotFound
    ELSE IF Find(s.val.response, section) = {} THEN Undefined
    ELSE Ok(CHOOSE e \in Find(s.val.response, section) : TRUE)

-----------------------------------------------------------------------------
(* Inputs: what a client sends and what the provider answers. *)

CSC == <<"C", "S", "C">>
MATH == <<"M", "A", "T", "H">>

\* path values around the schemas' bounds, an unknown term among them
TermInputs == {"202109", "202110", "202201", "209999"}
SubjectInputs == {<<"C">>, CSC, MATH, <<"M", "A", "T", "H", "S">>}
CodeInputs == {<<"1", "1">>, <<"1", "1", "0">>, <<"1", "1", "0", "0", "0">>}
SectionInputs == {<<"A", "0", "1">>, <<"A", "0", "2">>, <<"B", "0", "1">>,
                  <<"A", "0", "1", "0", "1">>}

\* query values of the list route
SubjectFilters == {Absent, Str(<<>>), Str(CSC), Str(MATH)}
CodeFilters == {Absent, Str(<<>>), Str(<<"1", "1", "0">>)}
NumberInputs == {Absent, NotANumber} \cup {Number(h) : h \in (-2)..Num(MaxPage)}

\* upstream catalog entries (KualiCourseCatalog)
CatalogEntries ==
    {[catalogCourseId |-> CSC \o <<"1", "1", "0">>, subjectCodeName |-> CSC],
     [catalogCourseId |-> CSC \o <<"2", "2", "5">>, subjectCodeName |-> CSC],
     [catalogCourseId |-> MATH \o <<"1", "1", "0">>, subjectCodeName |-> MATH]}

\* upstream course records (KualiCourseItem)
CourseRecords ==
    {[catalogCourseId |-> CSC \o <<"1", "1", "0">>, subjectCodeName |-> CSC,
      title |-> "Fundamentals of Programming I"]}

\* upstream section entries: two share the section code A01
SectionEntries ==
    {[crn |-> "10001", sectionCode |-> <<"A", "0", "1">>,
      sectionType |-> "lecture", seats |-> "open"],
     [crn |-> "10002", sectionCode |-> <<"A", "0", "2">>,
      sectionType |-> "lecture", seats |-> "full"],
     [crn |-> "10003", sectionCode |-> <<"A", "0", "1">>,
      sectionType |-> "lab", seats |-> "open"]}

\* arguments of a direct extractor application
ExtractorInputs ==
    [catalogCourseId : SeqsUpTo({"C", "1"}, MaxIdLen),
     subjectCodeName : SeqsUpTo({"C", "S"}, MaxNameLen)]

NoLocals == [none |-> TRUE]
NoCourse == [none |-> TRUE]
NoIdentity == [none |-> TRUE]

-----------------------------------------------------------------------------
(* The server. *)

Init ==
    /\ pc = "idle"
    /\ req = [route |-> "none"]
    /\ calls = <<>>
    /\ courses = NotIssued
    /\ details = NotIssued
    /\ sections = NotIssued
    /\ loc = NoLocals
    /\ resp = NoResponse
    /\ course = NoCourse
    /\ identity = NoIdentity

\* a request arrives
Receive(r) ==
    /\ pc' = "received"
    /\ req' = r
    /\ UNCHANGED <<calls, courses, details, sections, loc, resp, course, identity>>

\* the reply has gone out: nothing of the request is kept
Complete ==
    /\ pc = "done"
    /\ pc' = "idle"
    /\ req' = [route |-> "none"]
    /\ calls' = <<>>
    /\ courses' = NotIssued
    /\ details' = NotIssued
    /\ sections' = NotIssued
    /\ loc' = NoLocals
    /\ resp' = NoResponse
    /\ UNCHANGED <<course, identity>>

ReceiveSemester ==
    /\ pc = "idle"
    /\ Receive([route |-> "semester"])

ReceiveCourses ==
    /\ pc = "idle"
    /\ \E t \in TermInputs, s \in SubjectFilters, c \in CodeFilters,
          p \in NumberInputs, l \in NumberInputs :
           Receive([route  |-> "courses",
                    params |-> [term |-> t],
                    query  |-> [subject |-> s, code |-> c, page |-> p, limit |-> l]])

ReceiveCourse ==
    /\ pc = "idle"
    /\ \E t \in TermInputs, s \in SubjectInputs, c \in CodeInputs :
           Receive([route  |-> "course",
                    params |-> [term |-> t, subject |-> s, code |-> c]])

ReceiveSection ==
    /\ pc = "idle"
    /\ \E t \in TermInputs, s \in SubjectInputs, c \in CodeInputs,
          x \in SectionInputs :
           Receive([route  |-> "section",
                    params |-> [term |-> t, subject |-> s, code |-> c,
                                section |-> x]])

\* the route's schema is checked before its handler runs
Validate ==
    /\ pc = "received"
    /\ IF RouteSchema(req)
       THEN pc' = "handler" /\ resp' = resp
       ELSE pc' = "done" /\ resp' = ValidationError
    /\ UNCHANGED <<req, calls, courses, details, sections, loc, course, identity>>

SemesterHandler ==
    /\ pc = "handler" /\ req.route = "semester"
    /\ resp' = Ok([terms |-> SemesterTerms])
    /\ pc' = "done"
    /\ UNCHANGED <<req, calls, courses, details, sections, loc, course, identity>>

\* up to: await uvic.getCourses(term)
CoursesHandlerStart ==
    /\ pc = "handler" /\ req.route = "courses"
    /\ calls' = Append(calls, [op |-> "getCourses", term |-> req.params.term])
    /\ courses' = Pending
    /\ pc' = "await"
    /\ UNCHANGED <<req, details, sections, loc, resp, course, identity>>

GetCoursesFulfils ==
    /\ courses.st = "pending"
    /\ \E response \in SeqsUpTo(CatalogEntries, MaxCourses) :
        courses' = Fulfilled([response |-> response])
    /\ UNCHANGED <<pc, req, calls, details, sections, loc, resp, course, identity>>

GetCoursesRejects ==
    /\ courses.st = "pending"
    /\ courses' = Rejected
    /\ UNCHANGED <<pc, req, calls, details, sections, loc, resp, course, identity>>

\* from the await to the return
CoursesHandlerResume ==
    /\ pc = "await" /\ req.route = "courses"
    /\ courses.st \in {"fulfilled", "rejected"}
    /\ loc' = IF courses.st = "fulfilled"
              THEN ListLocals(req.query, courses.val.response) ELSE loc
    /\ resp' = ListOutcome(req.query, courses)
    /\ pc' = "done"
    /\ UNCHANGED <<req, calls, courses, details, sections, course, identity>>

\* up to: await Promise.all([...]); both calls are made before the await
CourseHandlerStart ==
    /\ pc = "handler" /\ req.route = "course"
    /\ calls' = calls \o
         <<[op |-> "getCourseDetails", term |-> req.params.term,
            subject |-> req.params.subject, code |-> req.params.code],
           [op |-> "getCourseSections", term |-> req.params.term,
            subject |-> req.params.subject, code |-> req.params.code]>>
    /\ details' = Pending
    /\ sections' = Pending
    /\ pc' = "await"
    /\ UNCHANGED <<req, courses, loc, resp, course, identity>>

GetCourseDetailsFulfils ==
    /\ details.st = "pending"
    /\ \E v \in CourseRecords \cup {Null} : details' = Fulfilled(v)
    /\ UNCHANGED <<pc, req, calls, courses, sections, loc, resp, course, identity>>

GetCourseDetailsRejects ==
    /\ details.st = "pending"
    /\ details' = Rejected
    /\ UNCHANGED <<pc, req, calls, courses, sections, loc, resp, course, identity>>

GetCourseSectionsFulfils ==
    /\ sections.st = "pending"
    /\ \E response \in SeqsUpTo(SectionEntries, MaxSections) :
        sections' = Fulfilled([response |-> response])
    /\ UNCHANGED <<pc, req, calls, courses, details, loc, resp, course, identity>>

GetCourseSectionsRejects ==
    /\ sections.st = "pending"
    /\ sections' = Rejected
    /\ UNCHANGED <<pc, req, calls, courses, details, loc, resp, course, identity>>

\* from the await to the return
CourseHandlerResume ==
    /\ pc = "await" /\ req.route = "course"
    /\ PromiseAll(details, sections) # "pending"
    /\ resp' = DetailOutcome(details, sections)
    /\ pc' = "done"
    /\ UNCHANGED <<req, calls, courses, details, sections, loc, course, identity>>

\* up to: await uvic.getCourseSections(term, subject, code)
SectionHandlerStart ==
    /\ pc = "handler" /\ req.route = "section"
    /\ calls' = Append(calls,
         [op |-> "getCourseSections", term |-> req.params.term,
          subject |-> req.params.subject, code |-> req.params.code])
    /\ sections' = Pending
    /\ pc' = "await"
    /\ UNCHANGED <<req, courses, details, loc, resp, course, identity>>

\* from the await to the return
SectionHandlerResume ==
    /\ pc = "await" /\ req.route = "section"
    /\ sections.st \in {"fulfilled", "rejected"}
    /\ resp' = SectionOutcome(req.params.section, sections)
    /\ pc' = "done"
    /\ UNCHANGED <<req, calls, courses, details, sections, loc, course, identity>>

Next ==
    \/ ReceiveSemester
    \/ ReceiveCourses
    \/ ReceiveCourse
    \/ ReceiveSection
    \/ Validate
    \/ SemesterHandler
    \/ CoursesHandlerStart
    \/ GetCoursesFulfils
    \/ GetCoursesRejects
    \/ CoursesHandlerResume
    \/ CourseHandlerStart
    \/ GetCourseDetailsFulfils
    \/ GetCourseDetailsRejects
    \/ GetCourseSectionsFulfils
    \/ GetCourseSectionsRejects
    \/ CourseHandlerResume
    \/ SectionHandlerStart
    \/ SectionHandlerResume
    \/ Complete

Spec == Init /\ [][Next]_vars

-----------------------------------------------------------------------------
(* subjectCodeExtractor applied to one entry. *)

InitExtract ==
    /\ pc = "extract"
    /\ req = [route |-> "none"]
    /\ calls = <<>>
    /\ courses = NotIssued
    /\ details = NotIssued
    /\ sections = NotIssued
    /\ loc = NoLocals
    /\ resp = NoResponse
    /\ course \in ExtractorInputs
    /\ identity = NoIdentity

Extract ==
    /\ pc = "extract"
    /\ identity' = subjectCodeExtractor(course)
    /\ pc' = "extracted"
    /\ UNCHANGED <<req, calls, courses, details, sections, loc, resp, course>>

NextExtract == Extract

SpecExtract == InitExtract /\ [][NextExtract]_vars

-----------------------------------------------------------------------------
(* Properties. *)

TermRoutes == {"courses", "course", "section"}

\* a supplied number below 1
BelowOne(v) == v.kind = "num" /\ v.val < Num(1)

\* the request breaks a validation rule of section 4.2: an unknown term, a
\* subject, code or section outside its length bounds on the detail and
\* section routes, a page or limit below 1 on the list route
ViolatesRules(r) ==
    /\ r.route \in TermRoutes
    /\ \/ r.params.term \notin CoursesTerms
       \/ /\ r.route \in {"course", "section"}
          /\ \/ Len(r.params.subject) < 2 \/ Len(r.params.subject) > 4
             \/ Len(r.params.code) < 3 \/ Len(r.params.code) > 4
       \/ /\ r.route = "section"
          /\ (Len(r.params.section) < 1 \/ Len(r.params.section) > 4)
       \/ /\ r.route = "courses"
          /\ (BelowOne(r.query.page) \/ BelowOne(r.query.limit))

\* C1: on every term-taking route, a request that breaks a validation rule
\* is rejected with a validation error and no provider call is issued for it.
C1_InvalidRequestIssuesNoCall ==
    ViolatesRules(req) =>
        /\ calls = <<>>
        /\ resp.kind \in {"none", "validation"}
        /\ pc = "done" => resp = ValidationError

\* the elements of f at the zero-based positions i with
\* (p - 1) * l <= i < p * l, for p and l counts of halves
PositionsSlice(f, p, l) ==
    LET at == {i \in 0..(Len(f) - 1) : (p - 2) * l <= 4 * i /\ 4 * i < p * l}
    IN  IF at = {} THEN <<>>
        ELSE SubSeq(f, 1 + CHOOSE i \in at : \A j \in at : i <= j,
                       1 + CHOOSE i \in at : \A j \in at : i >= j)

\* the value of an optional number, d when it is absent
OrWhenAbsent(v, d) == IF v.kind = "absent" THEN Num(d) ELSE v.val

\* C2: a validated list request with page p and limit l (1 and 10 when
\* absent) is answered with exactly the elements at positions
\* [(p-1)*l, p*l) of the filtered sequence, so with at most l elements.
C2_PageIsThePositionsSlice ==
    (req.route = "courses" /\ resp.kind = "ok") =>
        LET p == OrWhenAbsent(req.query.page, 1)
            l == OrWhenAbsent(req.query.limit, 10)
        IN  /\ resp.body = PositionsSlice(loc.filtered, p, l)
            /\ 2 * Len(resp.body) <= l

\* the indexes of the entries of a section list with the given section code
Matches(response, section) ==
    {i \in 1..Len(response) : response[i].sectionCode = section}

\* C3: the section route answers with the first entry of the fetched list
\* whose section code is the requested one, and with NotFound (404,
\* { error: "Course not found" }) when no entry matches.
C3_SectionFoundOrNotFound ==
    (req.route = "section" /\ pc = "done" /\ sections.st = "fulfilled") =>
        LET response == sections.val.response
            hits == Matches(response, req.params.section)
        IN  IF hits = {}
            THEN /\ resp.kind = "notfound" /\ resp.status = 404
                 /\ resp.body = [error |-> "Course not found"]
            ELSE /\ resp.kind = "ok"
                 /\ \E i \in hits : /\ \A j \in hits : i <= j
                                    /\ resp.body = response[i]

\* C4: on the detail route, when the detail fetch returns no record the
\* outcome is NotFound (404, { error: "Course not found" }) with no section
\* data, whatever the section fetch returned; when it returns a record the
\* response is that record plus the sections projected to
\* {crn, section, sectionType} in upstream order.
C4_DetailOutcome ==
    (/\ req.route = "course" /\ pc = "done"
     /\ details.st = "fulfilled" /\ sections.st = "fulfilled") =>
        IF details.val = Null
        THEN /\ resp.kind = "notfound" /\ resp.status = 404
             /\ resp.body = [error |-> "Course not found"]
        ELSE /\ resp.kind = "ok" /\ resp.status = 200
             /\ DOMAIN resp.body = DOMAIN details.val \cup {"sections"}
             /\ \A f \in DOMAIN details.val : resp.body[f] = details.val[f]
             /\ Len(resp.body.sections) = Len(sections.val.response)
             /\ \A i \in 1..Len(sections.val.response) :
                   resp.body.sections[i] =
                       [crn         |-> sections.val.response[i].crn,
                        section     |-> sections.val.response[i].sectionCode,
                        sectionType |-> sections.val.response[i].sectionType]

\* a missing course whose section list is not empty is answered NotFound
C4_Witness ==
    /\ req.route = "course" /\ pc = "done"
    /\ details.st = "fulfilled" /\ details.val = Null
    /\ sections.st = "fulfilled" /\ Len(sections.val.response) = MaxSections
    /\ resp = NotFound

\* C5: once a provider call made for the request has failed, the request
\* has no outcome but a failure: no successful response, no empty or
\* default value, no NotFound; on the detail route the failure of either of
\* the two joined fetches fails the operation.
C5_UpstreamFailureFails ==
    (courses.st = "rejected" \/ details.st = "rejected" \/ sections.st = "rejected") =>
        /\ resp.kind \in {"none", "failure"}
        /\ pc = "done" => resp = Failure

\* the detail fetch found the course and the section fetch failed
C5_Witness ==
    /\ req.route = "course" /\ pc = "done"
    /\ details.st = "fulfilled" /\ details.val # Null
    /\ sections.st = "rejected"
    /\ resp = Failure

\* C6: a list request that reaches the slice computation does so with page
\* and limit integers >= 1 (1 and 10 when absent).
C6_SlicedWithPositiveIntegers ==
    (req.route = "courses" /\ loc # NoLocals) =>
        /\ IsInteger(loc.page) /\ loc.page >= Num(1)
        /\ IsInteger(loc.limit) /\ loc.limit >= Num(1)

\* an entry passes a filter when the filter is absent or equals its field
PassesWhenAbsentOrEqual(filter, field) ==
    filter.kind = "absent" \/ filter.val = field

\* C7 as stated: the filter stage keeps an entry iff (subject filter absent
\* or equal to the entry's subject) and (code filter absent or equal to the
\* entry's code), for every supplied value, the empty string included, in
\* upstream order.
C7_KeepsIffAbsentOrEqual ==
    (req.route = "courses" /\ loc # NoLocals) =>
        loc.filtered =
            SelectSeq(loc.c, LAMBDA e :
                /\ PassesWhenAbsentOrEqual(req.query.subject, e.subject)
                /\ PassesWhenAbsentOrEqual(req.query.code, e.code))

\* an entry passes a filter when the filter is absent, empty or equals its
\* field
PassesWhenUnsetOrEqual(filter, field) ==
    filter.kind = "absent" \/ filter.val = <<>> \/ filter.val = field

\* C7 as amended: the filter stage keeps an entry iff (subject filter absent,
\* the empty string, or equal to the entry's subject) and (code filter
\* absent, the empty string, or equal to the entry's code), in upstream order.
C7_KeepsIffUnsetOrEqual ==
    (req.route = "courses" /\ loc # NoLocals) =>
        /\ Len(loc.c) = Len(courses.val.response)
        /\ loc.filtered =
            SelectSeq(loc.c, LAMBDA e :
                /\ PassesWhenUnsetOrEqual(req.query.subject, e.subject)
                /\ PassesWhenUnsetOrEqual(req.query.code, e.code))

\* an empty subject filter with a code filter that drops some entries and
\* keeps others
C7_Witness ==
    /\ req.route = "courses" /\ loc # NoLocals
    /\ req.query.subject = Str(<<>>)
    /\ req.query.code.kind = "str" /\ req.query.code.val # <<>>
    /\ Len(loc.filtered) > 0
    /\ Len(loc.filtered) < Len(loc.c)

\* C8 as stated: for every entry, subject + code is the identifier and the
\* subject is as long as the reference subject name, also when the
\* identifier is shorter than the reference subject name.
C8_SplitIsLengthConsistent ==
    pc = "extracted" =>
        /\ identity.subject \o identity.code = course.catalogCourseId
        /\ Len(identity.subject) = Len(course.subjectCodeName)

\* C8 as amended: for every entry, subject + code is the identifier, and the
\* subject is as long as the shorter of the reference subject name and the
\* identifier.
C8_SplitRebuildsIdentifier ==
    pc = "extracted" =>
        /\ identity.subject \o identity.code = course.catalogCourseId
        /\ Len(identity.subject) =
              Min(Len(course.subjectCodeName), Len(course.catalogCourseId))

\* an identifier shorter than its reference subject name has been split
C8_Witness ==
    /\ pc = "extracted"
    /\ Len(course.catalogCourseId) > 0
    /\ Len(course.catalogCourseId) < Len(course.subjectCodeName)
    /\ identity.code = <<>>

\* C9: on the detail route both provider calls are issued before the handler
\* waits, and no response is produced until both have completed or one has
\* failed, whichever completes first.
C9_JoinBeforeResponse ==
    req.route = "course" =>
        /\ pc = "await" =>
              /\ \E i \in 1..Len(calls) : calls[i].op = "getCourseDetails"
              /\ \E i \in 1..Len(calls) : calls[i].op = "getCourseSections"
              /\ details.st # "none" /\ sections.st # "none"
        /\ resp.kind \notin {"none", "validation"} =>
              \/ details.st = "fulfilled" /\ sections.st = "fulfilled"
              \/ details.st = "rejected"
              \/ sections.st = "rejected"

\* the detail fetch has answered, the section fetch has not, and the handler
\* is still waiting
C9_Witness ==
    /\ req.route = "course" /\ pc = "await"
    /\ details.st = "fulfilled" /\ sections.st = "pending"
    /\ resp = NoResponse

\* C10: every term GET /semester lists is in the term enumeration the list,
\* detail and section routes accept, so a request on an advertised term is
\* never turned down for its term.
C10_AdvertisedTermsAreAccepted ==
    /\ (req.route = "semester" /\ resp.kind = "ok") =>
          \A i \in 1..Len(resp.body.terms) :
              resp.body.terms[i] \in CoursesTerms \cap ClassTerms \cap SectionTerms
    /\ (/\ req.route = "course" /\ resp.kind = "validation"
        /\ \E i \in 1..Len(SemesterTerms) : SemesterTerms[i] = req.params.term) =>
          \/ Len(req.params.subject) < 2 \/ Len(req.params.subject) > 4
          \/ Len(req.params.code) < 3 \/ Len(req.params.code) > 4

=============================================================================
